---- MODULE Spec2Model ----
(***************************************************************************)
(* Workflow state machines of the AgentiMailCS repository.                 *)
(*                                                                         *)
(*  - JiraWorkflowOrchestrator (JiraCSServer/src/workflow): a LangGraph    *)
(*    StateGraph whose nodes return partial states that are merged into    *)
(*    the workflow state by the per-field reducers of                      *)
(*    WorkflowStateAnnotation.                                             *)
(*  - LangGraphStyleEmailWorkflowOrchestrator (jiraCSAgent/src/lib/        *)
(*    workflow/orchestrator-langgraph.ts): a hand-written graph executor   *)
(*    whose nodes return whole states.                                     *)
(*                                                                         *)
(* Calls to the generative model are the only source of nondeterminism:    *)
(* every agent action draws the outcome of its call from a small set.      *)
(***************************************************************************)
EXTENDS Integers, Sequences, FiniteSets, TLC

VARIABLES
    state,          \* Jira: the WorkflowStateAnnotation.State of the run
    node,           \* Jira: node the graph executes next, "END" or "THROWN"
    visited,        \* Jira: nodes executed so far, with the error flag of each patch
                    \*       and whether the node called the Jira API
    written,        \* Jira: <<>> or <<text>>, the current_response in the patch of the
                    \*       node executed last
    currentState,   \* Email: processEmail's currentState
    currentNode,    \* Email: processEmail's currentNode
    step,           \* Email: processEmail's loop counter
    returned,       \* Email: <<>> while running, <<s>> once processEmail returned s
    audit,          \* Email: every message appended by an agent during the run
    reroute,        \* Email: <<>> or <<[classification, reclassified, errorBefore, handler]>> of
                    \*        processFeedback's re-handling
    reply,          \* Email: <<>> or <<kind>> of the model reply the classifier received
    requestCounts,  \* Routes: the map requestCounts of the rateLimit middleware
    now,            \* Routes: Date.now() in milliseconds
    passed,         \* Routes: per client, the endpoint observed in the client's current
                    \*         window and the requests handed to its handler in the window
    answer,         \* Routes: <<>> or <<"next">> / <<"429">>, what the middleware did last
    requestStatus,  \* Tasks: the map requestStatus, taskId -> <<>> or <<entry>>
    copyProject,    \* Tasks: position of the copyProject request
    consumer,       \* Tasks: position and arguments of the consumer's updateRequestStatus call
    poller,         \* Tasks: position and local reads of the checkProjectCopyStatus request
    pollResponse,   \* Tasks: <<>> or <<r>>, the last response of checkProjectCopyStatus
    writes,         \* Tasks: the entries written by copyProject and by completed updates
    isProcessing,   \* Manager: EmailManager.isProcessing
    polling,        \* Manager: per service, the startPolling calls whose first poll is running
    intervals,      \* Manager: per service, the intervals registered with setInterval
    batches,        \* Manager: emails left to each processEmails call that is between batches
    handed,         \* Manager: <<>> or <<[emails, isProcessing]>>, the batch passed to the
                    \*          workflow last and isProcessing at that moment
    managerCalls,   \* Manager: calls of startEmailProcessing and stopEmailProcessing so far
    ticks           \* Manager: interval firings so far

jiraVars  == <<state, node, visited, written>>
emailVars == <<currentState, currentNode, step, returned, audit, reroute, reply>>
rateVars  == <<requestCounts, now, passed, answer>>
taskVars  == <<requestStatus, copyProject, consumer, poller, pollResponse, writes>>
managerVars == <<isProcessing, polling, intervals, batches, handed, managerCalls, ticks>>
vars      == <<state, node, visited, written, currentState, currentNode, step, returned, audit, reroute,
               reply, requestCounts, now, passed, answer,
               requestStatus, copyProject, consumer, poller, pollResponse, writes,
               isProcessing, polling, intervals, batches, handed, managerCalls, ticks>>

(***************************************************************************)
(* Optional values: <<>> is undefined, <<x>> is the value x.               *)
(***************************************************************************)
None      == <<>>
Some(x)   == <<x>>
IsSet(o)  == o # <<>>
Val(o)    == o[1]

(***************************************************************************)
(* Bounds of the model.                                                    *)
(***************************************************************************)
\* Supersteps the graph engine runs before compiledGraph.invoke throws
\* (the engine's recursion limit; the library default is larger).
RecursionLimit == 16

\* Texts a generative call can return as response_content ("" is the empty text).
Responses == {"", "r1", "r2"}

\* Quality scores the evaluator model can report.
Scores == {50, 80}

(***************************************************************************)
(*                      JiraWorkflowOrchestrator                           *)
(***************************************************************************)
Categories   == {"JIRA_SIMPLE", "JIRA_COMPLEX", "GENERAL"}
HandlerNodes == {"login_handler", "complex_handler", "general_handler"}

DefaultMaxRetries == 3

\* forms["Project ID"] and forms.Comment.Content (a sequence of characters)
TheRequest == [ProjectID |-> "JCSC-1", Content |-> <<"l", "o", "g", "i", "n">>]

\* ---- reducers of WorkflowStateAnnotation --------------------------------
ProcessingHistoryReducer_Replace(existing, update) == update

ProcessingHistoryReducer(existing, update) == existing \o update

\* (existing, update) => update || existing : the empty string is falsy
TruthyReducer(existing, update) == IF update # "" THEN update ELSE existing

\* (existing, update) => update !== undefined ? update : existing
DefinedReducer(existing, update) == update

MetadataReducer(existing, update) == existing \cup update

Reducer(f, existing, update) ==
    CASE f = "processing_history" -> ProcessingHistoryReducer(existing, update)
      [] f \in {"current_response", "current_agent", "next_action"}
                                  -> TruthyReducer(existing, update)
      [] f \in {"retry_count", "max_retries", "has_error"}
                                  -> DefinedReducer(existing, update)
      [] f = "metadata"           -> MetadataReducer(existing, update)
      [] OTHER                    -> update

\* The engine merges the partial state returned by a node into the state.
Merge(st, patch) ==
    [f \in DOMAIN st |->
        IF f \in DOMAIN patch THEN Reducer(f, st[f], patch[f]) ELSE st[f]]

\* Channel defaults of the annotation; channels without default are undefined.
DefaultState ==
    [ original_request   |-> None,
      classification     |-> None,
      processing_history |-> <<>>,
      current_response   |-> "",
      quality_assessment |-> None,
      final_output       |-> None,
      current_agent      |-> "",
      retry_count        |-> 0,
      max_retries        |-> DefaultMaxRetries,
      next_action        |-> "",
      completed_at       |-> None,
      error_message      |-> None,
      has_error          |-> FALSE,
      metadata           |-> {} ]

createInitialState(request) == [original_request |-> Some(request)]

\* ---- WorkflowStateUtils --------------------------------------------------
shouldRetry(st) == st.retry_count < st.max_retries /\ st.has_error

incrementRetry(st) ==
    [retry_count |-> st.retry_count + 1, has_error |-> FALSE, error_message |-> None]

markCompleted(st, finalOutput) ==
    [final_output |-> Some(finalOutput), completed_at |-> Some("now")]

\* comment.substring(0, Math.min(20, comment.length))
extractSourceFromComment_Whole(comment) == comment

extractSourceFromComment(comment) ==
    SubSeq(comment, 1, IF Len(comment) < 20 THEN Len(comment) ELSE 20)

buildJiraResponse_NoEmptyCheck(st) ==
    IF ~IsSet(st.original_request)
    THEN None
    ELSE Some([ issue_key       |-> Val(st.original_request).ProjectID,
                Source          |-> extractSourceFromComment(Val(st.original_request).Content),
                comment_content |-> st.current_response ])

buildJiraResponse(st) ==
    IF st.current_response = "" \/ ~IsSet(st.original_request)
    THEN None
    ELSE Some([ issue_key       |-> Val(st.original_request).ProjectID,
                Source          |-> extractSourceFromComment(Val(st.original_request).Content),
                comment_content |-> st.current_response ])

\* ---- agents --------------------------------------------------------------
ProcessingStep(stepName, agentName, success, suggested) ==
    [step_name |-> stepName, agent_name |-> agentName,
     success |-> success, suggested_action |-> suggested]

HandlerAgent(n) ==
    CASE n = "login_handler"   -> [agent |-> "LoginHandlerAgent",   stepName |-> "login_handling",
                                   retry |-> "retry_login_handling"]
      [] n = "complex_handler" -> [agent |-> "ComplexHandlerAgent", stepName |-> "complex_handling",
                                   retry |-> "retry_complex_handling"]
      [] n = "general_handler" -> [agent |-> "GeneralHandlerAgent", stepName |-> "general_handling",
                                   retry |-> "retry_general_handling"]

HandlerOutcomes == [ok : {TRUE}, response_content : Responses] \cup [ok : {FALSE}]

Handle_ClearsAssessment(n, st, o) ==
    IF o.ok
    THEN [ current_response   |-> o.response_content,
           quality_assessment |-> None,
           processing_history |-> <<ProcessingStep(HandlerAgent(n).stepName, HandlerAgent(n).agent,
                                                   TRUE, "respond")>>,
           current_agent      |-> HandlerAgent(n).agent,
           next_action        |-> "quality_evaluation" ]
    ELSE [ processing_history |-> <<ProcessingStep(HandlerAgent(n).stepName, HandlerAgent(n).agent,
                                                   FALSE, HandlerAgent(n).retry)>>,
           error_message      |-> Some("handling failed"),
           has_error          |-> TRUE ]

\* LoginHandlerAgent.handle / ComplexHandlerAgent.handle / GeneralHandlerAgent.handle
Handle(n, st, o) ==
    IF o.ok
    THEN [ current_response   |-> o.response_content,
           processing_history |-> <<ProcessingStep(HandlerAgent(n).stepName, HandlerAgent(n).agent,
                                                   TRUE, "respond")>>,
           current_agent      |-> HandlerAgent(n).agent,
           next_action        |-> "quality_evaluation" ]
    ELSE [ processing_history |-> <<ProcessingStep(HandlerAgent(n).stepName, HandlerAgent(n).agent,
                                                   FALSE, HandlerAgent(n).retry)>>,
           error_message      |-> Some("handling failed"),
           has_error          |-> TRUE ]

HandlerFor(category) ==
    CASE category = "JIRA_SIMPLE"  -> "login_handler"
      [] category = "JIRA_COMPLEX" -> "complex_handler"
      [] OTHER                     -> "general_handler"

ClassifyOutcomes == [ok : {TRUE}, category : Categories] \cup [ok : {FALSE}]

\* ProblemClassificationAgent.classify
Classify(st, o) ==
    IF o.ok
    THEN [ classification     |-> Some([category |-> o.category]),
           processing_history |-> <<ProcessingStep("classification", "ProblemClassificationAgent",
                                                   TRUE, HandlerFor(o.category))>>,
           current_agent      |-> "ProblemClassificationAgent",
           next_action        |-> HandlerFor(o.category) ]
    ELSE [ processing_history |-> <<ProcessingStep("classification", "ProblemClassificationAgent",
                                                   FALSE, "retry_classification")>>,
           error_message      |-> Some("classification failed"),
           has_error          |-> TRUE ]

EvaluateOutcomes ==
    [ok : {TRUE}, score : Scores, requires_improvement : BOOLEAN] \cup [ok : {FALSE}]

EvaluateError ==
    [ processing_history |-> <<ProcessingStep("quality_evaluation", "QualityEvaluatorAgent",
                                              FALSE, "retry_quality_evaluation")>>,
      error_message      |-> Some("quality evaluation failed"),
      has_error          |-> TRUE ]

\* QualityEvaluatorAgent.evaluate
Evaluate(st, o) ==
    IF st.current_response = "" THEN EvaluateError      \* throw 'No response to evaluate'
    ELSE IF ~o.ok THEN EvaluateError                     \* the model call or JSON.parse throws
    ELSE LET action == IF o.requires_improvement THEN "improve_response"
                                                 ELSE "finalize_response"
         IN [ quality_assessment |-> Some([score |-> o.score,
                                           requires_improvement |-> o.requires_improvement]),
              processing_history |-> <<ProcessingStep("quality_evaluation", "QualityEvaluatorAgent",
                                                      TRUE, action)>>,
              current_agent      |-> "QualityEvaluatorAgent",
              next_action        |-> action ]

\* QualityEvaluatorAgent.needsImprovement
needsImprovement(assessment) == assessment.requires_improvement \/ assessment.score < 75

\* ---- nodes of JiraWorkflowOrchestrator -----------------------------------
improveResponseNode(st) ==
    IF shouldRetry(st) THEN incrementRetry(st)
    ELSE [next_action |-> "finalize_response"]

finalizeResponseNode(st) ==
    LET finalOutput == buildJiraResponse(st)
    IN IF ~IsSet(finalOutput)
       THEN [ error_message |-> Some("Failed to build final response"),
              has_error     |-> TRUE,
              next_action   |-> "error" ]
       ELSE markCompleted(st, Val(finalOutput))

\* JiraApiClient.sendResponse catches every failure and reports it in
\* the success flag of the ApiResponse it returns.
SendOutcomes == [success : BOOLEAN]

sendToJiraNode_RollsBack(st, apiResponse) ==
    IF ~IsSet(st.final_output)
    THEN [error_message |-> Some("No final output to send"), has_error |-> TRUE]
    ELSE IF apiResponse.success
         THEN [metadata |-> {"jira_response", "sent_at"}]
         ELSE [error_message |-> Some("Failed to send to Jira"), has_error |-> TRUE,
               final_output |-> None]

sendToJiraNode(st, apiResponse) ==
    IF ~IsSet(st.final_output)
    THEN [error_message |-> Some("No final output to send"), has_error |-> TRUE]
    ELSE IF apiResponse.success
         THEN [metadata |-> {"jira_response", "sent_at"}]
         ELSE [error_message |-> Some("Failed to send to Jira"), has_error |-> TRUE]

handleErrorNode_CountsRetry(st) ==
    [completed_at |-> Some("now"), retry_count |-> st.retry_count + 1]

handleErrorNode(st) == [completed_at |-> Some("now")]

\* ---- routing functions and the edge table of buildGraph ---------------------
routeAfterClassification(st) ==
    IF st.has_error THEN "error"
    ELSE IF st.next_action = "" THEN "error"
    ELSE st.next_action

routeAfterQuality_IgnoresError(st) ==
    IF st.next_action = "" THEN "error"
    ELSE st.next_action

routeAfterQuality(st) ==
    IF st.has_error THEN "error"
    ELSE IF st.next_action = "" THEN "error"
    ELSE st.next_action

routeAfterImprovement(st) ==
    IF st.has_error THEN "error"
    ELSE IF st.retry_count >= st.max_retries THEN "finalize_response"
    ELSE IF IsSet(st.classification) /\ Val(st.classification).category = "JIRA_SIMPLE"
         THEN "login_handler"
    ELSE IF IsSet(st.classification) /\ Val(st.classification).category = "JIRA_COMPLEX"
         THEN "complex_handler"
    ELSE "general_handler"

routeAfterError(st) == IF shouldRetry(st) THEN "retry" ELSE "end"

\* Target of a branch key in the mapping of a conditional edge.
EdgeTarget(key) ==
    CASE key = "error" -> "handle_error"
      [] key = "retry" -> "classify"
      [] key = "end"   -> "END"
      [] OTHER         -> key

\* Node that follows node n once its patch has been merged into st.
NextNode(n, st) ==
    CASE n = "classify"           -> EdgeTarget(routeAfterClassification(st))
      [] n \in HandlerNodes       -> "quality_evaluation"
      [] n = "quality_evaluation" -> EdgeTarget(routeAfterQuality(st))
      [] n = "improve_response"   -> EdgeTarget(routeAfterImprovement(st))
      [] n = "finalize_response"  -> "send_to_jira"
      [] n = "send_to_jira"       -> "END"
      [] n = "handle_error"       -> EdgeTarget(routeAfterError(st))

\* TRUE when node n, executed on st, calls JiraApiClient.sendResponse
JiraApiCalled(n, st) == n = "send_to_jira" /\ IsSet(st.final_output)

PatchHasError(patch) == "has_error" \in DOMAIN patch /\ patch.has_error

\* One superstep of compiledGraph.invoke: node n returned patch.
Superstep(n, patch) ==
    /\ node = n
    /\ Len(visited) < RecursionLimit
    /\ LET merged == Merge(state, patch)
       IN /\ state' = merged
          /\ node' = NextNode(n, merged)
    /\ visited' = Append(visited, [node |-> n, error |-> PatchHasError(patch),
                                   called |-> JiraApiCalled(n, state)])
    /\ written' = IF "current_response" \in DOMAIN patch
                  THEN Some(patch.current_response) ELSE None
    /\ UNCHANGED <<emailVars, rateVars, taskVars, managerVars>>

ClassifyNode == \E o \in ClassifyOutcomes : Superstep("classify", Classify(state, o))

HandlerNode ==
    \E n \in HandlerNodes, o \in HandlerOutcomes : Superstep(n, Handle(n, state, o))

QualityEvaluationNode ==
    \E o \in EvaluateOutcomes : Superstep("quality_evaluation", Evaluate(state, o))

ImproveResponseNode == Superstep("improve_response", improveResponseNode(state))

FinalizeResponseNode == Superstep("finalize_response", finalizeResponseNode(state))

SendToJiraNode ==
    \E r \in SendOutcomes : Superstep("send_to_jira", sendToJiraNode(state, r))

HandleErrorNode == Superstep("handle_error", handleErrorNode(state))

\* The engine gives up when its superstep limit is reached before END:
\* invoke throws and processRequest returns from its catch block.
RecursionLimitReached ==
    /\ node \notin {"END", "THROWN"}
    /\ Len(visited) >= RecursionLimit
    /\ node' = "THROWN"
    /\ UNCHANGED <<state, visited, written>>
    /\ UNCHANGED <<emailVars, rateVars, taskVars, managerVars>>

processRequest_IgnoresError ==
    IF node = "THROWN"
    THEN [success |-> FALSE, result |-> None, error |-> Some("workflow error")]
    ELSE [success |-> TRUE, result |-> Some(state), error |-> state.error_message]

\* processRequest's return value
processRequest ==
    IF node = "THROWN"
    THEN [success |-> FALSE, result |-> None, error |-> Some("workflow error")]
    ELSE [success |-> ~state.has_error, result |-> Some(state), error |-> state.error_message]

JiraNext ==
    \/ ClassifyNode
    \/ HandlerNode
    \/ QualityEvaluationNode
    \/ ImproveResponseNode
    \/ FinalizeResponseNode
    \/ SendToJiraNode
    \/ HandleErrorNode
    \/ RecursionLimitReached


\* ---- observations of a Jira run -------------------------------------------
Count(seq, P(_)) == Cardinality({i \in 1..Len(seq) : P(seq[i])})

IsHandlerVisit(v) == v.node \in HandlerNodes
HandlerRuns == Count(visited, IsHandlerVisit)

IsErrorVisit(v) == v.error
NoStageError == Count(visited, IsErrorVisit) = 0

Ran(n) == \E i \in 1..Len(visited) : visited[i].node = n

IsClassifyVisit(v) == v.node = "classify"
ClassifyRuns == Count(visited, IsClassifyVisit)

\* Times the edge handle_error -> classify was taken.
ErrorRetries ==
    Cardinality({i \in 1..(Len(visited) - 1) :
                    visited[i].node = "handle_error" /\ visited[i + 1].node = "classify"})

\* Times the back edge improve_response -> handler was taken.
ImproveCycles ==
    Cardinality({i \in 1..(Len(visited) - 1) :
                    visited[i].node = "improve_response" /\ visited[i + 1].node \in HandlerNodes})

IsEvaluationStep(h) == h.step_name = "quality_evaluation" /\ h.success
IsAcceptingStep(h)  == IsEvaluationStep(h) /\ h.suggested_action # "improve_response"

\* Every evaluation of the run so far asked for an improvement.
AlwaysImprove ==
    /\ Count(state.processing_history, IsEvaluationStep) > 0
    /\ Count(state.processing_history, IsAcceptingStep) = 0

IsPrefix(a, b) == Len(a) <= Len(b) /\ SubSeq(b, 1, Len(a)) = a

(***************************************************************************)
(* Claims about JiraWorkflowOrchestrator, checked under SpecJira.          *)
(***************************************************************************)

\* C1: the retry loop is bounded: in a run in which no stage reports an
\* error the cycle quality_evaluation -> improve_response -> handler is taken
\* at most max_retries times, and the run reaches finalize_response and END
\* instead of running until the engine's superstep limit stops it.
C1_RetryLoopBounded ==
    NoStageError => (ImproveCycles <= state.max_retries /\ node # "THROWN")

\* C2: budget-exhaustion finalize: when every evaluation requires improvement
\* and no stage errors, the handler runs max_retries + 1 times, never more,
\* and finalize_response then runs with retry_count = max_retries, has_error
\* false and no error_message.
C2_BudgetExhaustionFinalize ==
    (NoStageError /\ AlwaysImprove) =>
        /\ HandlerRuns <= state.max_retries + 1
        /\ Ran("finalize_response") =>
              /\ HandlerRuns = state.max_retries + 1
              /\ state.retry_count = state.max_retries
              /\ ~state.has_error
              /\ state.error_message = None

\* C3: in every state 0 <= retry_count <= max_retries; no step decreases
\* retry_count, and a step that changes it is a step of improve_response.
C3_RetryCountBounded ==
    /\ [](state.retry_count >= 0 /\ state.retry_count <= state.max_retries)
    /\ [][ /\ state'.retry_count >= state.retry_count
           /\ state'.retry_count # state.retry_count => node = "improve_response" ]_vars

\* improve_response and handle_error have both run and the counter is in range
C3_Witness ==
    /\ Ran("improve_response")
    /\ Ran("handle_error")
    /\ state.retry_count <= state.max_retries

\* C4: failed operations are retried at most max_retries times: the edge
\* handle_error -> classify is taken at most max_retries times and classify
\* executes at most max_retries + 1 times.
C4_ErrorRetriesBounded ==
    /\ ErrorRetries <= state.max_retries
    /\ ClassifyRuns <= state.max_retries + 1

\* C8: processing_history is append-only: the history before a step is a
\* prefix of the history after it.
C8_HistoryAppendOnly ==
    [][IsPrefix(state.processing_history, state'.processing_history)]_vars

\* a run on the error and retry path whose history holds a failed step
\* followed by later steps
C8_Witness ==
    /\ Ran("handle_error")
    /\ Len(state.processing_history) >= 3
    /\ ~state.processing_history[2].success
    /\ ClassifyRuns >= 2

\* C10: fatal short-circuit: when a handler node returns an error, the node
\* executed next is not quality_evaluation.
C10_FatalShortCircuit ==
    \A i \in 1..(Len(visited) - 1) :
        (visited[i].node \in HandlerNodes /\ visited[i].error)
            => visited[i + 1].node # "quality_evaluation"

(***************************************************************************)
(*              LangGraphStyleEmailWorkflowOrchestrator                    *)
(***************************************************************************)
\* Confidence values are held in hundredths: 60 is 0.6.
ConfidenceThreshold == 60
FallbackConfidence  == 50
maxSteps            == 10

\* Confidence values a model reply can carry.
Confidences == {59, 60, 95}

MappedCategories == {"jira_simple", "jira_complex", "general"}

\* category strings a model reply can carry; parsed.category is cast to
\* IntentCategory without validation, "billing" stands for any other string
ReplyCategories == MappedCategories \cup {"billing"}

\* recommendedAction strings a model reply can carry, "escalate" standing for
\* any string outside the declared union
ReplyActions == {"accept", "reclassify", "human_review", "escalate"}

\* EmailManager.processEmail builds the initial state
InitialMessages == <<[type |-> "system", content |-> "start"]>>

initialState ==
    [ messages       |-> InitialMessages,
      classification |-> None,
      evaluation     |-> None,
      result         |-> None,
      error          |-> None,
      feedbackData   |-> None,
      currentAgent   |-> None ]

\* ---- BaseAgent ------------------------------------------------------------
addMessage(st, type, content) ==
    [st EXCEPT !.messages = Append(@, [type |-> type, content |-> content])]

updateResult(st, action, response, status) ==
    [st EXCEPT !.result = Some([action |-> action, response |-> response, status |-> status])]

\* ---- EmailClassifierAgent.execute ------------------------------------------
ClassifierOutcomes ==
    [kind : {"parsed"}, category : ReplyCategories, confidence : Confidences]
        \cup [kind : {"unparsable", "api_error"}]

EmailClassifierExecute_SwallowsError(st, o) ==
    IF o.kind = "api_error"
    THEN addMessage(st, "system", "classification failed")
    ELSE LET classificationResult ==
                 IF o.kind = "parsed"
                 THEN [category |-> o.category, confidence |-> o.confidence,
                       reasoning |-> "model reasoning"]
                 ELSE [category |-> "general", confidence |-> FallbackConfidence,
                       reasoning |-> "reply format error, default classification"]
         IN [addMessage(st, "ai", "classified")
                EXCEPT !.classification = Some(classificationResult),
                       !.currentAgent   = Some("email_classifier")]

EmailClassifierExecute_ParseFailureAborts(st, o) ==
    IF o.kind \in {"api_error", "unparsable"}
    THEN [addMessage(st, "system", "classification failed")
            EXCEPT !.error = Some([source |-> "none", message |-> "api error"])]
    ELSE [addMessage(st, "ai", "classified")
             EXCEPT !.classification = Some([category |-> o.category, confidence |-> o.confidence,
                                             reasoning |-> "model reasoning"]),
                    !.currentAgent   = Some("email_classifier")]

EmailClassifierExecute(st, o) ==
    IF o.kind = "api_error"
    THEN [addMessage(st, "system", "classification failed")
            EXCEPT !.error = Some([source |-> "none", message |-> "api error"])]
    ELSE LET classificationResult ==
                 IF o.kind = "parsed"
                 THEN [category |-> o.category, confidence |-> o.confidence,
                       reasoning |-> "model reasoning"]
                 ELSE [category |-> "general", confidence |-> FallbackConfidence,
                       reasoning |-> "reply format error, default classification"]
         IN [addMessage(st, "ai", "classified")
                EXCEPT !.classification = Some(classificationResult),
                       !.currentAgent   = Some("email_classifier")]

\* ---- routeToHandler ---------------------------------------------------------
routeToHandler_InclusiveThreshold(st) ==
    IF ~IsSet(st.classification) THEN "general"
    ELSE IF Val(st.classification).confidence <= ConfidenceThreshold THEN "general"
    ELSE Val(st.classification).category

routeToHandler(st) ==
    IF ~IsSet(st.classification) THEN "general"
    ELSE IF Val(st.classification).confidence < ConfidenceThreshold THEN "general"
    ELSE Val(st.classification).category

\* ---- handler agents -----------------------------------------------------------
EmailHandlerNodes == {"handle_jira_simple", "handle_jira_complex", "handle_general"}

EmailHandler(n) ==
    CASE n = "handle_jira_simple"  -> [action |-> "jira_simple_resolution",  source |-> "jira-simple-handler"]
      [] n = "handle_jira_complex" -> [action |-> "jira_complex_resolution", source |-> "none"]
      [] n = "handle_general"      -> [action |-> "general_resolution",      source |-> "general-handler"]

EmailHandlerOutcomes == [ok : {TRUE}, response : Responses] \cup [ok : {FALSE}]

\* JiraSimpleHandlerAgent.execute / JiraComplexHandlerAgent.execute /
\* GeneralHandlerAgent.execute
EmailHandlerExecute(n, st, o) ==
    IF o.ok
    THEN updateResult(addMessage(addMessage(st, "human", "handling"), "ai", o.response),
                      EmailHandler(n).action, o.response, "completed")
    ELSE [st EXCEPT !.error  = Some([source |-> EmailHandler(n).source, message |-> "handler error"]),
                    !.result = Some([action |-> EmailHandler(n).action,
                                     response |-> "failed", status |-> "failed"])]

\* ---- ResultEvaluatorAgent.execute ----------------------------------------------
EvaluatorOutcomes ==
    [kind : {"parsed"}, recommendedAction : ReplyActions,
     suggestedCategory : {None} \cup {Some(c) : c \in ReplyCategories},
     confidence : Confidences]
        \cup [kind : {"unparsable", "api_error"}]

ResultEvaluatorExecute(st, o) ==
    IF ~IsSet(st.classification) \/ ~IsSet(st.result) \/ o.kind = "api_error"
    THEN [addMessage(st, "system", "evaluation failed")
            EXCEPT !.error = Some([source |-> "none", message |-> "evaluation error"])]
    ELSE LET evaluationResult ==
                 IF o.kind = "parsed"
                 THEN [recommendedAction |-> o.recommendedAction,
                       suggestedCategory |-> o.suggestedCategory,
                       confidence        |-> o.confidence]
                 ELSE [recommendedAction |-> "accept",
                       suggestedCategory |-> None,
                       confidence        |-> FallbackConfidence]
         IN [addMessage(st, "ai", "evaluated") EXCEPT !.evaluation = Some(evaluationResult)]

routeAfterEvaluation(st) ==
    IF ~IsSet(st.evaluation) THEN "accept"
    ELSE IF Val(st.evaluation).recommendedAction = "reclassify" THEN "process_feedback"
    ELSE Val(st.evaluation).recommendedAction

\* ---- FeedbackAgent.execute -------------------------------------------------------
FeedbackOutcomes == [ok : BOOLEAN]

FeedbackExecute(st, o) ==
    IF ~IsSet(st.classification) \/ ~IsSet(st.evaluation) \/ ~IsSet(st.result) \/ ~o.ok
    THEN [addMessage(st, "system", "feedback failed")
            EXCEPT !.error = Some([source |-> "none", message |-> "feedback error"])]
    ELSE [addMessage(st, "system", "feedback done") EXCEPT !.feedbackData = Some("feedback")]

\* ---- reclassifyEmail ---------------------------------------------------------------
reclassifyEmail(st) ==
    IF ~IsSet(st.evaluation) \/ ~IsSet(Val(st.evaluation).suggestedCategory)
    THEN [st EXCEPT !.error = Some([source |-> "reclassify_email", message |-> "no suggestion"])]
    ELSE [st EXCEPT !.classification =
                        Some([category   |-> Val(Val(st.evaluation).suggestedCategory),
                              confidence |-> Val(st.evaluation).confidence,
                              reasoning  |-> "reclassified"]),
                    !.currentAgent = Some("result_evaluator")]

\* ---- processFeedback ------------------------------------------------------------------
\* evaluation?.suggestedCategory || classification?.category
correctCategory(st) ==
    IF IsSet(st.evaluation) /\ IsSet(Val(st.evaluation).suggestedCategory)
    THEN Val(st.evaluation).suggestedCategory
    ELSE IF IsSet(st.classification) THEN Some(Val(st.classification).category)
    ELSE None

\* the switch over correctCategory
FeedbackHandler(category) ==
    CASE category = "jira_simple"  -> "handle_jira_simple"
      [] category = "jira_complex" -> "handle_jira_complex"
      [] OTHER                     -> "handle_general"

\* TRUE when processFeedback handles the email again
Rehandles(st, fo) ==
    /\ IsSet(st.evaluation)
    /\ Val(st.evaluation).recommendedAction = "reclassify"
    /\ IsSet(correctCategory(reclassifyEmail(FeedbackExecute(st, fo))))

processFeedback(st, fo, ho) ==
    LET feedbackState     == FeedbackExecute(st, fo)
        reclassifiedState == reclassifyEmail(feedbackState)
    IN IF Rehandles(st, fo)
       THEN EmailHandlerExecute(FeedbackHandler(Val(correctCategory(reclassifiedState))),
                                reclassifiedState, ho)
       ELSE feedbackState

\* ---- setupWorkflow: the edge tables ------------------------------------------------------
ClassifyMapping ==
    [k \in MappedCategories |->
        CASE k = "jira_simple"  -> "handle_jira_simple"
          [] k = "jira_complex" -> "handle_jira_complex"
          [] k = "general"      -> "handle_general"]

EvaluationMapping ==
    [k \in {"accept", "process_feedback", "human_review"} |->
        IF k = "process_feedback" THEN "process_feedback" ELSE "END"]

Route_StartLoops(n, st) ==
    CASE n = "START"              -> Some("START")
      [] n = "classify_email"     -> IF routeToHandler(st) \in DOMAIN ClassifyMapping
                                     THEN Some(ClassifyMapping[routeToHandler(st)]) ELSE None
      [] n \in EmailHandlerNodes  -> Some("evaluate_result")
      [] n = "evaluate_result"    -> IF routeAfterEvaluation(st) \in DOMAIN EvaluationMapping
                                     THEN Some(EvaluationMapping[routeAfterEvaluation(st)]) ELSE None
      [] n = "process_feedback"   -> Some("END")

\* <<>> where the condition's key has no entry in the mapping
Route(n, st) ==
    CASE n = "START"              -> Some("classify_email")
      [] n = "classify_email"     -> IF routeToHandler(st) \in DOMAIN ClassifyMapping
                                     THEN Some(ClassifyMapping[routeToHandler(st)]) ELSE None
      [] n \in EmailHandlerNodes  -> Some("evaluate_result")
      [] n = "evaluate_result"    -> IF routeAfterEvaluation(st) \in DOMAIN EvaluationMapping
                                     THEN Some(EvaluationMapping[routeAfterEvaluation(st)]) ELSE None
      [] n = "process_feedback"   -> Some("END")

\* processEmail's catch block
EngineError ==
    [initialState EXCEPT !.error  = Some([source |-> "orchestrator", message |-> "workflow failed"]),
                         !.result = Some([action |-> "workflow_error", response |-> "error",
                                          status |-> "failed"])]

NewMessages(before, after) == SubSeq(after.messages, Len(before.messages) + 1, Len(after.messages))

EngineStep_SkipsMissingRoute(n, newState) ==
    /\ returned = None
    /\ step < maxSteps
    /\ currentNode = n
    /\ currentState' = newState
    /\ step' = step + 1
    /\ audit' = audit \o NewMessages(currentState, newState)
    /\ IF IsSet(newState.error) /\ n # "START" /\ n # "END"
       THEN returned' = Some(newState) /\ UNCHANGED currentNode
       ELSE IF ~IsSet(Route(n, newState))
            THEN currentNode' = "END" /\ UNCHANGED returned
            ELSE currentNode' = Val(Route(n, newState)) /\ UNCHANGED returned
    /\ UNCHANGED <<jiraVars, rateVars, taskVars, managerVars>>

\* One iteration of processEmail's loop: node n returned newState.
EngineStep(n, newState) ==
    /\ returned = None
    /\ step < maxSteps
    /\ currentNode = n
    /\ currentState' = newState
    /\ step' = step + 1
    /\ audit' = audit \o NewMessages(currentState, newState)
    /\ IF IsSet(newState.error) /\ n # "START" /\ n # "END"
       THEN returned' = Some(newState) /\ UNCHANGED currentNode                \* break
       ELSE IF ~IsSet(Route(n, newState))
            THEN returned' = Some(EngineError) /\ UNCHANGED currentNode         \* throw
            ELSE currentNode' = Val(Route(n, newState)) /\ UNCHANGED returned
    /\ UNCHANGED <<jiraVars, rateVars, taskVars, managerVars>>

StartNode == EngineStep("START", currentState) /\ UNCHANGED <<reroute, reply>>

ClassifyEmail ==
    /\ \E o \in ClassifierOutcomes :
          /\ EngineStep("classify_email", EmailClassifierExecute(currentState, o))
          /\ reply' = Some(o.kind)
    /\ UNCHANGED reroute

HandleEmail ==
    /\ \E n \in EmailHandlerNodes, o \in EmailHandlerOutcomes :
          EngineStep(n, EmailHandlerExecute(n, currentState, o))
    /\ UNCHANGED <<reroute, reply>>

EvaluateResult ==
    /\ \E o \in EvaluatorOutcomes :
          EngineStep("evaluate_result", ResultEvaluatorExecute(currentState, o))
    /\ UNCHANGED <<reroute, reply>>

ProcessFeedback ==
    \E fo \in FeedbackOutcomes, ho \in EmailHandlerOutcomes :
        /\ EngineStep("process_feedback", processFeedback(currentState, fo, ho))
        /\ reroute' =
              IF Rehandles(currentState, fo)
              THEN LET rs == reclassifyEmail(FeedbackExecute(currentState, fo))
                   IN Some([classification |-> Val(rs.classification),
                            reclassified   |-> rs.currentAgent = Some("result_evaluator"),
                            errorBefore    |-> IsSet(rs.error),
                            handler |-> FeedbackHandler(Val(correctCategory(rs)))])
              ELSE reroute
        /\ UNCHANGED reply

\* the loop ends at END or when the step budget is used up
ReturnState ==
    /\ returned = None
    /\ (currentNode = "END" \/ step >= maxSteps)
    /\ returned' = Some(currentState)
    /\ UNCHANGED <<currentState, currentNode, step, audit, reroute, reply>>
    /\ UNCHANGED <<jiraVars, rateVars, taskVars, managerVars>>

(***************************************************************************)
(*        rateLimit middleware of the JiraCSServer routes                  *)
(***************************************************************************)
\* Milliseconds on the clock after which the model stops advancing time.
MaxNow == 120001

\* rateLimit(20, 60000), rateLimit(5, 60000), rateLimit(100, 60000) and
\* rateLimit(50, 60000) of the routes
ProcessLimit == 20
BatchLimit   == 5
StatusLimit  == 100
InfoLimit    == 50
WindowMs     == 60000

Endpoints == {"/process", "/batch", "/status", "/info"}

Limit(e) ==
    CASE e = "/process" -> ProcessLimit
      [] e = "/batch"   -> BatchLimit
      [] e = "/status"  -> StatusLimit
      [] e = "/info"    -> InfoLimit

\* req.ip of the requests
Clients == {"10.0.0.1"}

\* !clientData || now > clientData.resetTime
WindowExpired(counts, clientIp, t) ==
    ~IsSet(counts[clientIp]) \/ t > Val(counts[clientIp]).resetTime

rateLimit_OffByOne(maxRequests, windowMs, counts, clientIp, t) ==
    IF WindowExpired(counts, clientIp, t)
    THEN [ requestCounts |-> [counts EXCEPT ![clientIp] =
                                  Some([count |-> 1, resetTime |-> t + windowMs])],
           answer |-> "next" ]
    ELSE IF Val(counts[clientIp]).count > maxRequests
         THEN [requestCounts |-> counts, answer |-> "429"]
         ELSE [ requestCounts |-> [counts EXCEPT ![clientIp] =
                                       Some([Val(@) EXCEPT !.count = @ + 1])],
                answer |-> "next" ]

\* The middleware rateLimit(maxRequests, windowMs) returns, run on a request
\* of clientIp at time t with the module's map requestCounts = counts:
\* the map after the request and whether next() was called or 429 was sent.
rateLimit(maxRequests, windowMs, counts, clientIp, t) ==
    IF WindowExpired(counts, clientIp, t)
    THEN [ requestCounts |-> [counts EXCEPT ![clientIp] =
                                  Some([count |-> 1, resetTime |-> t + windowMs])],
           answer |-> "next" ]
    ELSE IF Val(counts[clientIp]).count >= maxRequests
         THEN [requestCounts |-> counts, answer |-> "429"]
         ELSE [ requestCounts |-> [counts EXCEPT ![clientIp] =
                                       Some([Val(@) EXCEPT !.count = @ + 1])],
                answer |-> "next" ]

\* A request of client ip to endpoint e goes through the route's middleware.
Request(ip, e) ==
    LET r == rateLimit(Limit(e), WindowMs, requestCounts, ip, now)
    IN /\ requestCounts' = r.requestCounts
       /\ answer' = Some(r.answer)
       /\ IF r.answer # "next" THEN passed' = passed
          ELSE IF WindowExpired(requestCounts, ip, now)
               THEN \E w \in Endpoints :       \* a window starts: observe endpoint w in it
                       passed' = [passed EXCEPT ![ip] =
                                     [endpoint |-> w, count |-> IF e = w THEN 1 ELSE 0]]
               ELSE passed' = [passed EXCEPT ![ip].count =
                                  IF e = passed[ip].endpoint THEN @ + 1 ELSE @]
       /\ UNCHANGED now
       /\ UNCHANGED <<jiraVars, emailVars, taskVars, managerVars>>

HandleRequest == \E ip \in Clients, e \in Endpoints : Request(ip, e)

\* Date.now() moves on to the last millisecond of a client's window or to the
\* first millisecond after it.
Tick ==
    /\ \E ip \in Clients :
          /\ IsSet(requestCounts[ip])
          /\ \E t \in {Val(requestCounts[ip]).resetTime, Val(requestCounts[ip]).resetTime + 1} :
                /\ t > now
                /\ t <= MaxNow
                /\ now' = t
    /\ UNCHANGED <<requestCounts, passed, answer>>
    /\ UNCHANGED <<jiraVars, emailVars, taskVars, managerVars>>

RateNext ==
    \/ HandleRequest
    \/ Tick

(***************************************************************************)
(*   Task-status map of the project-copy endpoints (ScriptRunner script)   *)
(*                                                                         *)
(* requestStatus is a synchronizedMap whose values are plain maps: a put   *)
(* or a get of the outer map is one step, and every read or write of a     *)
(* field of a value is a step of its own.  The endpoint threads and the    *)
(* consumer that calls updateRequestStatus interleave step by step.        *)
(***************************************************************************)
\* Calls of updateRequestStatus the consumer makes, and polls of the client.
MaxUpdates == 2
MaxPolls   == 2

\* taskId of the one copyProject request
TaskIds == {"t1"}

UpdateStatuses == {"PROCESSING", "COMPLETED", "FAILED"}

\* What a write stores: the status, the message and System.currentTimeMillis(),
\* the last two told apart by the number of the writing call (0 is copyProject).
StatusEntry(status, call) ==
    [status |-> status, message |-> <<"message", call>>, timestamp |-> call]

IdleConsumer == [pc |-> "idle", calls |-> 0, taskId |-> "t1", status |-> "PROCESSING"]
IdlePoller   == [pc |-> "idle", polls |-> 0, taskId |-> "t1", updatesBefore |-> 0,
                 status |-> "", message |-> <<>>, timestamp |-> 0]

\* calls of updateRequestStatus that have returned
CompletedUpdates == IF consumer.pc = "idle" THEN consumer.calls ELSE consumer.calls - 1

\* copyProject: a validation fails, or producer.send throws
CopyProjectRejected ==
    /\ copyProject = "start"
    /\ copyProject' = "rejected"
    /\ UNCHANGED <<requestStatus, consumer, poller, pollResponse, writes>>

\* copyProject: producer.send(record) publishes the task's message
CopyProjectSend ==
    /\ copyProject = "start"
    /\ copyProject' = "sent"
    /\ UNCHANGED <<requestStatus, consumer, poller, pollResponse, writes>>

\* copyProject: requestStatus[taskId] = [status: "QUEUED", ...] and return
CopyProjectPut ==
    /\ copyProject = "sent"
    /\ copyProject' = "returned"
    /\ \E t \in TaskIds :
          requestStatus' = [requestStatus EXCEPT ![t] = Some(StatusEntry("QUEUED", 0))]
    /\ writes' = writes \cup {StatusEntry("QUEUED", 0)}
    /\ UNCHANGED <<consumer, poller, pollResponse>>

\* the consumer has received the published message and calls
\* updateRequestStatus(taskId, s, message)
UpdateCall ==
    /\ copyProject \in {"sent", "returned"}
    /\ consumer.pc = "idle"
    /\ consumer.calls < MaxUpdates
    /\ \E t \in TaskIds, s \in UpdateStatuses :
          consumer' = [pc |-> "containsKey", calls |-> consumer.calls + 1,
                       taskId |-> t, status |-> s]
    /\ UNCHANGED <<copyProject, requestStatus, poller, pollResponse, writes>>

\* if (requestStatus.containsKey(taskId))
UpdateContainsKey ==
    /\ consumer.pc = "containsKey"
    /\ consumer' = [consumer EXCEPT !.pc = IF IsSet(requestStatus[consumer.taskId])
                                           THEN "status" ELSE "idle"]
    /\ UNCHANGED <<copyProject, requestStatus, poller, pollResponse, writes>>

\* requestStatus[taskId].status = status
UpdateStatus ==
    /\ consumer.pc = "status"
    /\ requestStatus' = [requestStatus EXCEPT ![consumer.taskId] =
                            Some([Val(@) EXCEPT !.status = consumer.status])]
    /\ consumer' = [consumer EXCEPT !.pc = "message"]
    /\ UNCHANGED <<copyProject, poller, pollResponse, writes>>

\* requestStatus[taskId].message = message
UpdateMessage ==
    /\ consumer.pc = "message"
    /\ requestStatus' = [requestStatus EXCEPT ![consumer.taskId] =
                            Some([Val(@) EXCEPT !.message =
                                     StatusEntry(consumer.status, consumer.calls).message])]
    /\ consumer' = [consumer EXCEPT !.pc = "timestamp"]
    /\ UNCHANGED <<copyProject, poller, pollResponse, writes>>

\* requestStatus[taskId].timestamp = System.currentTimeMillis() and return
UpdateTimestamp ==
    /\ consumer.pc = "timestamp"
    /\ requestStatus' = [requestStatus EXCEPT ![consumer.taskId] =
                            Some([Val(@) EXCEPT !.timestamp =
                                     StatusEntry(consumer.status, consumer.calls).timestamp])]
    /\ writes' = writes \cup {StatusEntry(consumer.status, consumer.calls)}
    /\ consumer' = [consumer EXCEPT !.pc = "idle"]
    /\ UNCHANGED <<copyProject, poller, pollResponse>>

\* checkProjectCopyStatus: def status = requestStatus[taskId]; 404 if absent
PollGet ==
    /\ poller.pc = "idle"
    /\ poller.polls < MaxPolls
    /\ \E t \in TaskIds :
          IF IsSet(requestStatus[t])
          THEN /\ poller' = [poller EXCEPT !.pc = "status", !.polls = @ + 1, !.taskId = t,
                                           !.updatesBefore = CompletedUpdates]
               /\ UNCHANGED pollResponse
          ELSE /\ poller' = [poller EXCEPT !.polls = @ + 1, !.taskId = t,
                                           !.updatesBefore = CompletedUpdates]
               /\ pollResponse' = Some([code |-> 404, updatesBefore |-> CompletedUpdates])
    /\ UNCHANGED <<copyProject, requestStatus, consumer, writes>>

\* status: status.status
PollStatus ==
    /\ poller.pc = "status"
    /\ poller' = [poller EXCEPT !.pc = "message",
                                !.status = Val(requestStatus[poller.taskId]).status]
    /\ UNCHANGED <<copyProject, requestStatus, consumer, pollResponse, writes>>

\* message: status.message
PollMessage ==
    /\ poller.pc = "message"
    /\ poller' = [poller EXCEPT !.pc = "timestamp",
                                !.message = Val(requestStatus[poller.taskId]).message]
    /\ UNCHANGED <<copyProject, requestStatus, consumer, pollResponse, writes>>

\* timestamp: status.timestamp, and the response is returned
PollTimestamp ==
    /\ poller.pc = "timestamp"
    /\ pollResponse' = Some([code |-> 200, updatesBefore |-> poller.updatesBefore,
                         status |-> poller.status, message |-> poller.message,
                         timestamp |-> Val(requestStatus[poller.taskId]).timestamp])
    /\ poller' = [poller EXCEPT !.pc = "idle"]
    /\ UNCHANGED <<copyProject, requestStatus, consumer, writes>>

TaskStep ==
    \/ CopyProjectRejected
    \/ CopyProjectSend
    \/ CopyProjectPut
    \/ UpdateCall
    \/ UpdateContainsKey
    \/ UpdateStatus
    \/ UpdateMessage
    \/ UpdateTimestamp
    \/ PollGet
    \/ PollStatus
    \/ PollMessage
    \/ PollTimestamp

TaskNext == TaskStep /\ UNCHANGED <<jiraVars, emailVars, rateVars, managerVars>>

(***************************************************************************)
(* EmailManager and the polling loops of its email services.  A service's  *)
(* startPolling runs one poll right away and registers the interval once   *)
(* that poll has finished; every poll hands the fetched emails to the       *)
(* manager's processEmails, which processes them in batches.                *)
(***************************************************************************)
MaxCalls == 3
MaxTicks == 2
MaxEmails == 6
BatchSize == 5

\* the services initializeServices registered
Services == {"outlook", "gmail"}

\* config.polling.enabled of each service
PollingEnabled == [s \in Services |-> s = "outlook"]

\* number of emails a poll is left with after fetchNewEmails and the filter
EmailCounts == {0, 1, MaxEmails}

\* emails.slice(i, i + batchSize) of n remaining emails
BatchOf(n) == IF n < BatchSize THEN n ELSE BatchSize

\* processBatch: the emails of one batch are passed to orchestrator.processEmail
processBatch(n) == handed' = Some([emails |-> BatchOf(n), isProcessing |-> isProcessing])

\* EmailManager.processEmails(emails) up to the end of its first batch
processEmails(n) ==
    IF ~isProcessing
    THEN UNCHANGED <<batches, handed>>
    ELSE /\ processBatch(n)
         /\ batches' = IF n > BatchSize THEN Append(batches, n - BatchSize) ELSE batches

\* the closure poll of BaseEmailService.startPolling, with n filtered emails
poll(n) ==
    IF n > 0 THEN processEmails(n) ELSE UNCHANGED <<batches, handed>>

\* BaseEmailService.startPolling up to the await of its first poll
startPolling(s) ==
    IF ~PollingEnabled[s] THEN polling[s] ELSE polling[s] + 1

StartEmailProcessing ==
    /\ managerCalls < MaxCalls
    /\ managerCalls' = managerCalls + 1
    /\ IF isProcessing
       THEN UNCHANGED <<isProcessing, polling>>
       ELSE /\ isProcessing' = TRUE
            /\ polling' = [s \in Services |-> startPolling(s)]
    /\ UNCHANGED <<intervals, batches, handed, ticks>>

StopEmailProcessing ==
    /\ managerCalls < MaxCalls
    /\ managerCalls' = managerCalls + 1
    /\ isProcessing' = FALSE
    /\ UNCHANGED <<polling, intervals, batches, handed, ticks>>

\* the first poll of a startPolling call finishes and setInterval registers
\* the periodic poll
FirstPollDone(s) ==
    /\ polling[s] > 0
    /\ \E n \in EmailCounts : poll(n)
    /\ polling' = [polling EXCEPT ![s] = @ - 1]
    /\ intervals' = [intervals EXCEPT ![s] = @ + 1]
    /\ UNCHANGED <<isProcessing, managerCalls, ticks>>

\* one of the service's intervals fires and its poll finishes
IntervalFires(s) ==
    /\ intervals[s] > 0
    /\ ticks < MaxTicks
    /\ ticks' = ticks + 1
    /\ \E n \in EmailCounts : poll(n)
    /\ UNCHANGED <<isProcessing, polling, intervals, managerCalls>>

\* the loop of processEmails goes on to the next batch of call i
NextBatch(i) ==
    /\ i \in 1..Len(batches)
    /\ processBatch(batches[i])
    /\ batches' = IF batches[i] > BatchSize
                  THEN [batches EXCEPT ![i] = @ - BatchSize]
                  ELSE SubSeq(batches, 1, i - 1) \o SubSeq(batches, i + 1, Len(batches))
    /\ UNCHANGED <<isProcessing, polling, intervals, managerCalls, ticks>>

ManagerStep ==
    \/ StartEmailProcessing
    \/ StopEmailProcessing
    \/ \E s \in Services : FirstPollDone(s)
    \/ \E s \in Services : IntervalFires(s)
    \/ \E i \in 1..Len(batches) : NextBatch(i)

ManagerNext == ManagerStep /\ UNCHANGED <<jiraVars, emailVars, rateVars, taskVars>>

\* The orchestrators and the routes right after construction, before the first
\* run and the first request.
Init ==
    /\ state = Merge(DefaultState, createInitialState(TheRequest))
    /\ node = "classify"
    /\ visited = <<>>
    /\ written = None
    /\ currentState = initialState
    /\ currentNode = "START"
    /\ step = 0
    /\ returned = None
    /\ audit = <<>>
    /\ reroute = None
    /\ reply = None
    /\ requestCounts = [ip \in Clients |-> None]
    /\ now = 0
    /\ passed = [ip \in Clients |-> [endpoint |-> "/process", count |-> 0]]
    /\ answer = None
    /\ requestStatus = [t \in TaskIds |-> None]
    /\ copyProject = "start"
    /\ consumer = IdleConsumer
    /\ poller = IdlePoller
    /\ pollResponse = None
    /\ writes = {}
    /\ isProcessing = FALSE
    /\ polling = [s \in Services |-> 0]
    /\ intervals = [s \in Services |-> 0]
    /\ batches = <<>>
    /\ handed = None
    /\ managerCalls = 0
    /\ ticks = 0

EmailNext ==
    \/ StartNode
    \/ ClassifyEmail
    \/ HandleEmail
    \/ EvaluateResult
    \/ ProcessFeedback
    \/ ReturnState

SpecEmail == Init /\ [][EmailNext]_vars

SpecJira == Init /\ [][JiraNext]_vars

SpecRate == Init /\ [][RateNext]_vars

SpecTask == Init /\ [][TaskNext]_vars

SpecManager == Init /\ [][ManagerNext]_vars

(***************************************************************************)
(* Claims about LangGraphStyleEmailWorkflowOrchestrator, checked under     *)
(* SpecEmail.                                                              *)
(***************************************************************************)

\* The classifier has just run without error and its result has been routed
\* (or the routing has failed).
Classified ==
    /\ step = 2
    /\ IsSet(currentState.classification)
    /\ ~IsSet(currentState.error)

\* C5: confidence-threshold routing: after classify_email produced a category
\* jira_simple or jira_complex, the next node is handle_general when the
\* confidence is below 0.60 and the handler of the reported category when it
\* is 0.60 or more.
C5_ConfidenceThresholdRouting ==
    (Classified /\ Val(currentState.classification).category \in {"jira_simple", "jira_complex"}) =>
        /\ returned = None
        /\ Val(currentState.classification).confidence < 60 => currentNode = "handle_general"
        /\ Val(currentState.classification).confidence >= 60 =>
              currentNode = (IF Val(currentState.classification).category = "jira_simple"
                             THEN "handle_jira_simple" ELSE "handle_jira_complex")

\* a jira_complex classification with confidence exactly 0.60 was routed to
\* its own handler
C5_Witness ==
    /\ Classified
    /\ Val(currentState.classification).category = "jira_complex"
    /\ Val(currentState.classification).confidence = 60
    /\ currentNode = "handle_jira_complex"

\* C6: routing is total: a classification whose category is outside
\* {jira_simple, jira_complex, general}, with confidence 0.6 or more, is routed
\* to the general handler and the run continues without an error outcome.
C6_RoutingTotal ==
    (/\ Classified
     /\ Val(currentState.classification).category \notin MappedCategories
     /\ Val(currentState.classification).confidence >= 60) =>
        /\ returned = None
        /\ currentNode = "handle_general"

\* Handler that initial routing selects for a classification.
InitialHandler(classification) ==
    ClassifyMapping[routeToHandler([initialState EXCEPT !.classification = Some(classification)])]

\* C7: the handler processFeedback selects after a reclassification is the
\* one initial routing selects for the same classification; below 0.6 it is the
\* general handler.
C7_RerouteSameAsInitial ==
    (/\ IsSet(reroute)
     /\ Val(reroute).reclassified
     /\ Val(reroute).classification.category \in MappedCategories) =>
        Val(reroute).handler = InitialHandler(Val(reroute).classification)

\* C9: a run that ends with an error returns a state that holds every message
\* the executed stages appended.
C9_AuditTrailComplete ==
    (IsSet(returned) /\ IsSet(Val(returned).error)) =>
        Val(returned).messages = InitialMessages \o audit

(***************************************************************************)
(* Claims about the outcome of a run and about single nodes of             *)
(* JiraWorkflowOrchestrator.                                               *)
(***************************************************************************)
\* processRequest has returned: the graph reached END or invoke threw.
RunEnded == node \in {"END", "THROWN"}

\* final_output of the state processRequest returns (no state when it threw)
ReturnedFinalOutput ==
    IF IsSet(processRequest.result) THEN Val(processRequest.result).final_output ELSE None

\* The step executed last was send_to_jira and it reported a failed delivery.
DeliveryFailed ==
    /\ Len(visited) > 0
    /\ visited[Len(visited)].node = "send_to_jira"
    /\ visited[Len(visited)].error

\* C11 as stated: when the run has ended, either final_output is set and
\* the outcome is no error, or the outcome is an error and no final_output is
\* set; exactly one of the two.
C11_TerminalOutcomeAsStated ==
    RunEnded =>
        \/ (IsSet(ReturnedFinalOutput) /\ processRequest.success)
        \/ (~processRequest.success /\ ~IsSet(ReturnedFinalOutput))

\* C11: when the run has ended, a set final_output was built from the
\* non-empty current_response, a run without error has its final_output set,
\* and a run that ended with an error has a final_output only when the error
\* is the failed delivery of send_to_jira.
C11_TerminalOutcome ==
    RunEnded =>
        /\ IsSet(ReturnedFinalOutput) =>
              /\ state.current_response # ""
              /\ Val(ReturnedFinalOutput).comment_content = state.current_response
        /\ processRequest.success => IsSet(ReturnedFinalOutput)
        /\ (~processRequest.success /\ IsSet(ReturnedFinalOutput)) => DeliveryFailed

\* a run that ended at END with its final_output set and the delivery failed
C11_Witness ==
    /\ node = "END"
    /\ IsSet(ReturnedFinalOutput)
    /\ ~processRequest.success
    /\ DeliveryFailed

\* C12: a delivery failure does not roll back the workflow: a step of
\* send_to_jira in which JiraApiClient.sendResponse fails leaves final_output,
\* current_response, classification, quality_assessment, retry_count and
\* processing_history unchanged and surfaces the failure through has_error,
\* error_message and success = false.
C12_DeliveryFailureNoRollback ==
    [][ (node = "send_to_jira" /\ IsSet(state.final_output) /\ DeliveryFailed') =>
           /\ state'.final_output = state.final_output
           /\ state'.current_response = state.current_response
           /\ state'.classification = state.classification
           /\ state'.quality_assessment = state.quality_assessment
           /\ state'.retry_count = state.retry_count
           /\ state'.processing_history = state.processing_history
           /\ state'.has_error
           /\ IsSet(state'.error_message)
           /\ ~processRequest'.success ]_vars

\* the delivery of a finalized, evaluated response has failed and the caller
\* is told so
C12_Witness ==
    /\ DeliveryFailed
    /\ IsSet(state.final_output)
    /\ IsSet(state.quality_assessment)
    /\ state.error_message = Some("Failed to send to Jira")
    /\ ~processRequest.success

(***************************************************************************)
(* finalize_response and send_to_jira as functions of the state they are   *)
(* given: SpecFinalizer starts the tail of the graph on every state of     *)
(* FinalizerInputs, among them states with an empty current_response,      *)
(* which no run of processRequest hands to finalize_response.              *)
(***************************************************************************)
\* A comment text of n characters.
Text(n) == [i \in 1..n |-> IF i % 2 = 1 THEN "a" ELSE "b"]

\* Lengths of Comment.Content around the 20 characters kept as Source.
CommentLengths == {19, 20, 21, 30}

Requests ==
    {TheRequest} \cup
    {[ProjectID |-> "JCSC-2", Content |-> Text(n)] : n \in CommentLengths}

FinalizerInputs ==
    { Merge(DefaultState,
            [ original_request   |-> Some(req),
              classification     |-> Some([category |-> c]),
              current_response   |-> r,
              quality_assessment |-> qa,
              next_action        |-> "finalize_response" ]) :
        req \in Requests, c \in Categories, r \in Responses,
        qa \in {None} \cup {Some([score |-> s, requires_improvement |-> FALSE]) : s \in Scores} }

InitFinalizer ==
    /\ state \in FinalizerInputs
    /\ node = "finalize_response"
    /\ visited = <<>>
    /\ written = None
    /\ currentState = initialState
    /\ currentNode = "START"
    /\ step = 0
    /\ returned = None
    /\ audit = <<>>
    /\ reroute = None
    /\ reply = None
    /\ requestCounts = [ip \in Clients |-> None]
    /\ now = 0
    /\ passed = [ip \in Clients |-> [endpoint |-> "/process", count |-> 0]]
    /\ answer = None
    /\ requestStatus = [t \in TaskIds |-> None]
    /\ copyProject = "start"
    /\ consumer = IdleConsumer
    /\ poller = IdlePoller
    /\ pollResponse = None
    /\ writes = {}
    /\ isProcessing = FALSE
    /\ polling = [s \in Services |-> 0]
    /\ intervals = [s \in Services |-> 0]
    /\ batches = <<>>
    /\ handed = None
    /\ managerCalls = 0
    /\ ticks = 0

FinalizerNext ==
    \/ FinalizeResponseNode
    \/ SendToJiraNode

SpecFinalizer == InitFinalizer /\ [][FinalizerNext]_vars

\* C13: when finalize_response runs on a state whose current_response is
\* empty, the run goes on to send_to_jira and ends with an error outcome:
\* has_error true, final_output unset, success = false; and no node of the run
\* calls JiraApiClient.sendResponse.
C13_FinalizerMissingResponse ==
    (Ran("finalize_response") /\ state.current_response = "") =>
        /\ state.has_error
        /\ ~IsSet(state.final_output)
        /\ node \in {"send_to_jira", "END"}
        /\ node = "END" => (Ran("send_to_jira") /\ ~processRequest.success)
        /\ \A i \in 1..Len(visited) : ~visited[i].called

\* the run on an empty current_response has ended after send_to_jira
C13_Witness ==
    /\ node = "END"
    /\ state.current_response = ""
    /\ Ran("finalize_response")
    /\ Ran("send_to_jira")
    /\ state.error_message = Some("No final output to send")

EvaluatedWithoutError ==
    /\ Len(visited) > 0
    /\ visited[Len(visited)].node = "quality_evaluation"
    /\ ~visited[Len(visited)].error
    /\ ~state.has_error
    /\ IsSet(state.quality_assessment)

\* C15: the quality gate follows the score threshold: after a quality
\* evaluation without error the response goes back for another handler pass
\* (improve_response) exactly when score < 75 and retry_count < max_retries,
\* and is finalized otherwise, whatever the assessment's requires_improvement
\* flag says.
C15_QualityGateThreshold ==
    EvaluatedWithoutError =>
        IF Val(state.quality_assessment).score < 75 /\ state.retry_count < state.max_retries
        THEN node = "improve_response"
        ELSE node = "finalize_response"

\* The step executed last was a handler node.
HandlerRanLast == Len(visited) > 0 /\ visited[Len(visited)].node \in HandlerNodes

\* C16: handler frame condition: a step of login_handler, complex_handler or
\* general_handler, whether it succeeds or fails, leaves classification,
\* retry_count, max_retries, quality_assessment and original_request unchanged.
C16_HandlerFrame ==
    [][ (node \in HandlerNodes) =>
           /\ state'.classification = state.classification
           /\ state'.retry_count = state.retry_count
           /\ state'.max_retries = state.max_retries
           /\ state'.quality_assessment = state.quality_assessment
           /\ state'.original_request = state.original_request ]_vars

\* a handler has just run on a retry pass, with the assessment of the previous
\* pass in the state
C16_Witness ==
    /\ HandlerRanLast
    /\ HandlerRuns >= 2
    /\ IsSet(state.quality_assessment)
    /\ IsSet(state.classification)

\* C17: a failed handler leaves no response: after a handler step that
\* fails, on the first pass or on a retry pass, the state has its error set
\* and an empty current_response.
C17_HandlerFailureNoResponse ==
    (HandlerRanLast /\ visited[Len(visited)].error) =>
        /\ state.has_error
        /\ state.current_response = ""

(***************************************************************************)
(* Claims about classification, checked under SpecEmail.                   *)
(***************************************************************************)

C19_ParseFailureFallback ==
    (reply = Some("unparsable")) =>
        /\ step = 2 =>
              /\ IsSet(currentState.classification)
              /\ Val(currentState.classification).category = "general"
              /\ Val(currentState.classification).confidence < 60
              /\ Val(currentState.classification).reasoning =
                     "reply format error, default classification"
              /\ ~IsSet(currentState.error)
              /\ returned = None
              /\ currentNode = "handle_general"
        /\ step = 3 =>
              /\ IsSet(currentState.result)
              /\ Val(currentState.result).action = "general_resolution"

\* the general handler has answered an email whose classification reply could
\* not be parsed
C19_Witness ==
    /\ reply = Some("unparsable")
    /\ step = 3
    /\ IsSet(currentState.result)
    /\ Val(currentState.result).status = "completed"
    /\ currentNode = "evaluate_result"

(***************************************************************************)
(* Claims about the rateLimit middleware, checked under SpecRate.          *)
(***************************************************************************)

\* C20: rate-limit upper bound: for every client and every endpoint, within
\* one window at most the endpoint's limit of requests is handed to the
\* handler, and a further request to the endpoint in that window is answered
\* 429 and does not reach the handler.
C20_RateLimitUpperBound ==
    /\ [](\A ip \in Clients : passed[ip].count <= Limit(passed[ip].endpoint))
    /\ [][ \A ip \in Clients, e \in Endpoints :
              (/\ Request(ip, e)
               /\ ~WindowExpired(requestCounts, ip, now)
               /\ e = passed[ip].endpoint
               /\ passed[ip].count >= Limit(e))
                  => (answer' = Some("429") /\ passed' = passed) ]_vars

\* the 100 requests of a window were handed to /status and a further request
\* was answered 429
C20_Witness ==
    /\ \E ip \in Clients : passed[ip] = [endpoint |-> "/status", count |-> 100]
    /\ answer = Some("429")

\* C21: rate limits are per endpoint: a request of a client to an endpoint
\* whose handler has received fewer requests of the client than the endpoint's
\* limit in the current window is not answered 429, whatever the client has
\* sent to the other endpoints in that window.
C21_RateLimitPerEndpoint ==
    [][ \A ip \in Clients, e \in Endpoints :
           (/\ Request(ip, e)
            /\ ~WindowExpired(requestCounts, ip, now)
            /\ e = passed[ip].endpoint
            /\ passed[ip].count < Limit(e))
               => answer' # Some("429") ]_vars

(***************************************************************************)
(* Claims about the task-status map, checked under SpecTask.               *)
(***************************************************************************)

\* C22: the task-status map is concurrency-safe: the (status, message,
\* timestamp) triple of every poll response is one that a single copyProject
\* or a single updateRequestStatus call wrote, never a mix of two writes.
C22_PollSeesOneWrite ==
    (IsSet(pollResponse) /\ Val(pollResponse).code = 200) =>
        [status    |-> Val(pollResponse).status,
         message   |-> Val(pollResponse).message,
         timestamp |-> Val(pollResponse).timestamp] \in writes

\* C29: a consumer's status update is never lost: for a task accepted by
\* copyProject, a poll that starts after a call updateRequestStatus(taskId, s)
\* with s in {PROCESSING, COMPLETED, FAILED} has returned answers with s or a
\* later update, never with QUEUED.
C29_UpdateNeverLost ==
    (/\ copyProject = "returned"
     /\ IsSet(pollResponse)
     /\ Val(pollResponse).code = 200
     /\ Val(pollResponse).updatesBefore > 0) =>
        Val(pollResponse).status # "QUEUED"

(***************************************************************************)
(* Claims about processEmail's loop, checked under SpecEmail.              *)
(***************************************************************************)

\* C23: a missing route is fatal: when a node has executed without error
\* and the condition of its conditional edge returns a key that is not in the
\* mapping, processEmail returns at once a state whose error has source
\* 'orchestrator' and whose result has status 'failed'; and once processEmail
\* has returned no node executes.
C23_MissingRouteFatal ==
    /\ [][ (/\ returned = None
            /\ step' = step + 1
            /\ (~IsSet(currentState'.error) \/ currentNode = "START")
            /\ ~IsSet(Route(currentNode, currentState'))) =>
               /\ IsSet(returned')
               /\ IsSet(Val(returned').error)
               /\ Val(Val(returned').error).source = "orchestrator"
               /\ Val(Val(returned').result).status = "failed" ]_vars
    /\ [][ IsSet(returned) => (step' = step /\ returned' = returned) ]_vars

\* the evaluator recommended an action that has no route, and the run ended
\* with the orchestrator's error
C23_Witness ==
    /\ IsSet(returned)
    /\ IsSet(currentState.evaluation)
    /\ ~IsSet(currentState.error)
    /\ Val(currentState.evaluation).recommendedAction = "escalate"
    /\ Val(Val(returned).error).source = "orchestrator"

C25_ErrorAborts ==
    /\ (IsSet(currentState.error) /\ step > 0) => IsSet(returned)
    /\ IsSet(reroute) => ~Val(reroute).errorBefore

\* C26: every re-handled response returns to the quality gate: in the
\* messages of a run that returned without error, every execution of a handler
\* is followed by an evaluation of the result evaluator.
C26_ReHandledReturnsToGate ==
    (IsSet(returned) /\ ~IsSet(Val(returned).error) /\ IsSet(Val(returned).result)) =>
        \A j \in 1..Len(audit) :
            audit[j].content = "handling" =>
                \E i \in (j + 1)..Len(audit) : audit[i].content = "evaluated"

\* C27: current_response is last-write-wins: after every successful handler
\* pass current_response equals the response_content that pass returned, the
\* empty text included, whatever it held before.
C27_LastWriteWins ==
    (HandlerRanLast /\ ~visited[Len(visited)].error /\ IsSet(written)) =>
        state.current_response = Val(written)


\* The graph ran handle_error at least once during the run.
PassedHandleError == \E i \in 1..Len(visited) : visited[i].node = "handle_error"

C30_OnePollingLoop ==
    /\ \A s \in Services : intervals[s] <= 1
    /\ IsSet(handed) => Val(handed).isProcessing

====
